---------------------------- MODULE Spec2Model ----------------------------
(***************************************************************************)
(* A model of slas' Matrix<T, K, M> (src/src/matrix_stable.rs): a K x M    *)
(* matrix stored column-major in a StaticCowVec<T, K*M>, a fixed-size      *)
(* copy-on-write vector that either borrows a caller's array or owns a     *)
(* private one.                                                            *)
(*                                                                         *)
(* Buffers are functions over 0..n-1 (storage offsets are 0-based as in    *)
(* the source).  An index pair [r, c] of the source is the tuple <<r, c>>, *)
(* so n[0] and n[1] of the source are n[1] and n[2] here.                  *)
(* Scalars are integers: the f32 products of the modelled inputs are all   *)
(* far below 2^24 and therefore exact.                                     *)
(***************************************************************************)
EXTENDS Integers, Sequences, FiniteSets, TLC

VARIABLES
    dims,   \* the const generics [K, M, N] of the program under analysis
    ext,    \* the caller's arrays: extA has K*M elements, extB has N*K,
            \* extC has N*M
    mat,    \* the Matrix values held by the program, by name
    hist,   \* history of each value: how it was built, what was written
    ev      \* what the last operation did (its arguments and its effects)

vars == <<dims, ext, mat, hist, ev>>

-----------------------------------------------------------------------------
(* Bounds of the analysis *)

\* const generics K, M, N range over 1..MaxDim in the storage-mode analysis
MaxDim == 2

\* const generics K, M, N range over 1..MaxShape in the transpose/multiply
\* analysis (the shapes of the repository's own tests are always added)
MaxShape == 4

\* number of mutating accesses performed in one behaviour
MaxMut == 2

\* values written through the mutating accessors
WriteVals == {99}

-----------------------------------------------------------------------------
(* Buffers *)

Buf(n) == 0 .. (n - 1)

\* [T::from(0); LEN]
ZeroBuf(n) == [i \in Buf(n) |-> 0]

\* 1, 2, 3, ... : the left operands of tests::mul and tests::mul2
Iota(n) == [i \in Buf(n) |-> i + 1]

\* 10, 11, 20, 21, 30, 31, ... : the right operand of tests::mul
Tens(n) == [i \in Buf(n) |-> 10 * ((i \div 2) + 1) + (i % 2)]

\* 3, 6, 8, 10, 9, 17 : the right operand of tests::mul2, repeated with a
\* growing offset for other lengths
Mul2Seq == <<3, 6, 8, 10, 9, 17>>
Mul2Buf(n) == [i \in Buf(n) |-> Mul2Seq[(i % 6) + 1] + 20 * (i \div 6)]

\* a buffer with zeros in it (every third element)
Sparse(n) == [i \in Buf(n) |-> IF i % 3 = 1 THEN 0 ELSE i + 2]

FromSeq(s) == [i \in Buf(Len(s)) |-> s[i + 1]]

-----------------------------------------------------------------------------
(* StaticCowVec<'a, T, LEN>: the fixed-capacity copy-on-write vector.      *)
(* mode is "Borrowed" (src names the caller's array it refers to, data is  *)
(* empty) or "Owned" (data is its private array, src is "none").           *)

NoVec == [mode |-> "None", src |-> "none", data |-> ZeroBuf(0)]

\* StaticCowVec::zeros()
CowZeros(len) == [mode |-> "Owned", src |-> "none", data |-> ZeroBuf(len)]

\* From<&'a [T; LEN]>: a view of the caller's array
CowFromRef(id) == [mode |-> "Borrowed", src |-> id, data |-> ZeroBuf(0)]

\* From<[T; LEN]>: the array is moved in
CowFromArray(arr) == [mode |-> "Owned", src |-> "none", data |-> arr]

CowIsBorrowed(v) == v.mode = "Borrowed"

CowIsOwned(v) == v.mode = "Owned"

\* the LEN elements the vector currently denotes, given the caller's arrays
CowContents(v, arrays) == IF v.mode = "Borrowed" THEN arrays[v.src] ELSE v.data

\* copy-on-write promotion: a Borrowed vector duplicates all LEN elements
\* into storage of its own; an Owned one is left as it is
CowPromote(v, arrays) ==
    IF v.mode = "Borrowed"
    THEN [mode |-> "Owned", src |-> "none", data |-> arrays[v.src]]
    ELSE v

\* as_ptr(): read access to the first element
CowAsPtr(v, arrays) == CowContents(v, arrays)

\* as_mut_ptr(): promotes, then hands out the owned storage
CowAsMutPtr(v, arrays) == CowPromote(v, arrays)

\* get_unchecked(i): no bound check; i >= LEN is undefined behaviour,
\* reported here as -1 (no modelled scalar is negative)
CowGetUnchecked(v, arrays, i) ==
    LET c == CowContents(v, arrays)
    IN  IF i \in DOMAIN c THEN c[i] ELSE -1

\* *get_unchecked_mut(i) = x: promotes, then writes element i
CowGetUncheckedMut(v, arrays, i, x) ==
    LET o == CowPromote(v, arrays)
    IN  IF i \in DOMAIN o.data THEN [o EXCEPT !.data[i] = x] ELSE o

-----------------------------------------------------------------------------
(* Matrix<'a, T, K, M>(StaticCowVec<'a, T, {K * M}>): rows is K, cols is M *)

NoMatrix == [rows |-> 0, cols |-> 0, vec |-> NoVec]

MatZeros(K, M) == [rows |-> K, cols |-> M, vec |-> CowZeros(K * M)]

MatFromCow(K, M, v) == [rows |-> K, cols |-> M, vec |-> v]

MatFromRef(K, M, id) == [rows |-> K, cols |-> M, vec |-> CowFromRef(id)]

MatFromArray(K, M, arr) == [rows |-> K, cols |-> M, vec |-> CowFromArray(arr)]

MatIsBorrowed(m) == CowIsBorrowed(m.vec)

MatIsOwned(m) == CowIsOwned(m.vec)

\* deref_mut(): &mut self.0, the vector itself, as it is
MatDerefMut(m) == m.vec

\* *m.deref_mut() = v: the vector is replaced, the shape is the type's
MatDerefMutAssign(m, v) == [m EXCEPT !.vec = v]

\* the flat storage of m (**m in the tests)
Flat(m, arrays) == CowContents(m.vec, arrays)

\* n[0] + n[1] * K of the unchecked accessors
MatOffset(m, n) == n[1] + n[2] * m.rows

MatGetUnchecked(m, arrays, n) == CowGetUnchecked(m.vec, arrays, MatOffset(m, n))

\* a faulty get_unchecked_mut: the column stride is M instead of K
MatGetUncheckedMut_StrideM(m, arrays, n, x) ==
    [m EXCEPT !.vec = CowGetUncheckedMut(m.vec, arrays, n[1] + n[2] * m.cols, x)]

MatGetUncheckedMut(m, arrays, n, x) ==
    [m EXCEPT !.vec = CowGetUncheckedMut(m.vec, arrays, MatOffset(m, n), x)]

\* a faulty assert!: the row bound is off by one (n[0] <= K)
IndexInBounds_RowOffByOne(m, n) == n[1] <= m.rows /\ n[2] < m.cols

\* the assert! of index and index_mut
IndexInBounds(m, n) == n[1] < m.rows /\ n[2] < m.cols

\* m[[r, c]]: trapped, or the offset read and the value found there
MatIndex(m, arrays, n) ==
    IF ~IndexInBounds(m, n)
    THEN [trapped |-> TRUE, off |-> -1, val |-> -1]
    ELSE [trapped |-> FALSE,
          off     |-> n[1] + n[2] * m.rows,
          val     |-> CowGetUnchecked(m.vec, arrays, n[1] + n[2] * m.rows)]

\* a faulty index_mut: the element is written through the read accessor, so
\* a Borrowed vector is never promoted
MatIndexMut_NoPromotion(m, arrays, n, x) ==
    IF ~(n[1] < m.rows /\ n[2] < m.cols)
    THEN [trapped |-> TRUE, off |-> -1, m |-> m]
    ELSE [trapped |-> FALSE,
          off     |-> n[1] + n[2] * m.rows,
          m       |-> IF m.vec.mode = "Owned"
                      THEN [m EXCEPT !.vec.data[n[1] + n[2] * m.rows] = x]
                      ELSE m]

\* m[[r, c]] = x: trapped (m untouched), or the offset written and the
\* matrix after the write
MatIndexMut(m, arrays, n, x) ==
    IF ~IndexInBounds(m, n)
    THEN [trapped |-> TRUE, off |-> -1, m |-> m]
    ELSE [trapped |-> FALSE,
          off     |-> n[1] + n[2] * m.rows,
          m       |-> [m EXCEPT !.vec =
                         CowGetUncheckedMut(m.vec, arrays, n[1] + n[2] * m.rows, x)]]

-----------------------------------------------------------------------------
(* Matrix::transpose *)

\* a faulty loop body: the indices of the write are not swapped
TransposeBody_NoSwap(self, arrays, st, x, y) ==
    [buffer |-> MatGetUncheckedMut(st.buffer, arrays, <<x, y>>,
                                   MatGetUnchecked(self, arrays, <<x, y>>)),
     trace  |-> Append(st.trace, [x  |-> x,
                                  y  |-> y,
                                  rd |-> MatOffset(self, <<x, y>>),
                                  wr |-> MatOffset(st.buffer, <<x, y>>)])]

\* the body of the inner loop:
\*   *buffer.get_unchecked_mut([y, x]) = *self.get_unchecked([x, y])
\* together with a record of the offsets it read and wrote
TransposeBody(self, arrays, st, x, y) ==
    [buffer |-> MatGetUncheckedMut(st.buffer, arrays, <<y, x>>,
                                   MatGetUnchecked(self, arrays, <<x, y>>)),
     trace  |-> Append(st.trace, [x  |-> x,
                                  y  |-> y,
                                  rd |-> MatOffset(self, <<x, y>>),
                                  wr |-> MatOffset(st.buffer, <<y, x>>)])]

\* faulty loops: the inner loop stops one column early (for y in 0..M-1)
RECURSIVE TransposeLoop_SkipLastColumn(_, _, _, _, _)
TransposeLoop_SkipLastColumn(self, arrays, st, x, y) ==
    IF x >= self.rows THEN st
    ELSE IF y >= self.cols - 1
         THEN TransposeLoop_SkipLastColumn(self, arrays, st, x + 1, 0)
    ELSE TransposeLoop_SkipLastColumn(self, arrays,
                                      TransposeBody(self, arrays, st, x, y), x, y + 1)

\* faulty loops: the two bounds are exchanged (for x in 0..M, for y in 0..K)
RECURSIVE TransposeLoop_SwappedBounds(_, _, _, _, _)
TransposeLoop_SwappedBounds(self, arrays, st, x, y) ==
    IF x >= self.cols THEN st
    ELSE IF y >= self.rows
         THEN TransposeLoop_SwappedBounds(self, arrays, st, x + 1, 0)
    ELSE TransposeLoop_SwappedBounds(self, arrays,
                                     TransposeBody(self, arrays, st, x, y), x, y + 1)

\* for x in 0..K { for y in 0..M { body } }
RECURSIVE TransposeLoop(_, _, _, _, _)
TransposeLoop(self, arrays, st, x, y) ==
    IF x >= self.rows THEN st
    ELSE IF y >= self.cols THEN TransposeLoop(self, arrays, st, x + 1, 0)
    ELSE TransposeLoop(self, arrays, TransposeBody(self, arrays, st, x, y), x, y + 1)

\* a faulty transpose: a single row or column is "transposed" by handing out
\* the operand's own vector under the other shape
MatTranspose_SharedVector(self, arrays) ==
    IF self.rows = 1 \/ self.cols = 1
    THEN [buffer |-> [rows |-> self.cols, cols |-> self.rows, vec |-> self.vec],
          trace  |-> <<>>]
    ELSE TransposeLoop(self, arrays,
                       [buffer |-> MatZeros(self.cols, self.rows), trace |-> <<>>],
                       0, 0)

\* the whole of transpose: [buffer, trace]
MatTranspose(self, arrays) ==
    TransposeLoop(self, arrays,
                  [buffer |-> MatZeros(self.cols, self.rows), trace |-> <<>>],
                  0, 0)

\* every unchecked access of a transpose run stayed inside its buffer
TraceInBounds(self, trace) ==
    \A i \in 1 .. Len(trace) :
        /\ trace[i].rd \in Buf(self.rows * self.cols)
        /\ trace[i].wr \in Buf(self.cols * self.rows)

-----------------------------------------------------------------------------
(* Mul<Matrix<f32, N, K>> for Matrix<f32, K, M> and the backend it calls *)

\* `x as i32` of a usize below 2^32: values up to i32::MAX are kept, the
\* ones above wrap to x - 2^32 (written with numbers TLC can hold)
AsI32(x) ==
    IF x <= 2147483647 THEN x
    ELSE ((x - 2147483647) - 2147483647) - 2

\* a faulty call: the left operand's leading dimension is M instead of K
MulCall_LdaM(K, M, N) ==
    [m     |-> AsI32(M),
     n     |-> AsI32(N),
     k     |-> AsI32(K),
     alpha |-> 1,
     lda   |-> AsI32(M),
     ldb   |-> AsI32(N),
     beta  |-> 0,
     ldc   |-> AsI32(N)]

\* a faulty call: the output's leading dimension is M instead of N
MulCall_LdcM(K, M, N) ==
    [m     |-> AsI32(M),
     n     |-> AsI32(N),
     k     |-> AsI32(K),
     alpha |-> 1,
     lda   |-> AsI32(K),
     ldb   |-> AsI32(N),
     beta  |-> 0,
     ldc   |-> AsI32(M)]

\* the arguments of the one cblas_sgemm call (layout CblasRowMajor, both
\* operands CblasNoTrans)
MulCall(K, M, N) ==
    [m     |-> AsI32(M),
     n     |-> AsI32(N),
     k     |-> AsI32(K),
     alpha |-> 1,
     lda   |-> AsI32(K),
     ldb   |-> AsI32(N),
     beta  |-> 0,
     ldc   |-> AsI32(N)]

\* the offsets a row-major no-transpose GEMM reads and writes
GemmTouches(call) ==
    [a |-> {i * call.lda + l : i \in Buf(call.m), l \in Buf(call.k)},
     b |-> {l * call.ldb + j : l \in Buf(call.k), j \in Buf(call.n)},
     c |-> {i * call.ldc + j : i \in Buf(call.m), j \in Buf(call.n)}]

GemmInBounds(call, lenA, lenB, lenC) ==
    /\ call.m >= 0 /\ call.n >= 0 /\ call.k >= 0
    /\ GemmTouches(call).a \subseteq Buf(lenA)
    /\ GemmTouches(call).b \subseteq Buf(lenB)
    /\ GemmTouches(call).c \subseteq Buf(lenC)

\* sum over l in [l, k) of A[i*lda + l] * B[l*ldb + j]
RECURSIVE GemmDot(_, _, _, _, _, _)
GemmDot(call, A, B, i, j, l) ==
    IF l >= call.k THEN 0
    ELSE A[i * call.lda + l] * B[l * call.ldb + j]
         + GemmDot(call, A, B, i, j, l + 1)

\* for i in 0..m { for j in 0..n { C[i*ldc + j] = alpha*dot + beta*C[..] } }
RECURSIVE GemmLoop(_, _, _, _, _, _)
GemmLoop(call, A, B, C, i, j) ==
    IF i >= call.m THEN C
    ELSE IF j >= call.n THEN GemmLoop(call, A, B, C, i + 1, 0)
    ELSE GemmLoop(call, A, B,
                  [C EXCEPT ![i * call.ldc + j] =
                      call.alpha * GemmDot(call, A, B, i, j, 0) + call.beta * @],
                  i, j + 1)

\* cblas_sgemm(CblasRowMajor, CblasNoTrans, CblasNoTrans, m, n, k, alpha,
\*             A, lda, B, ldb, beta, C, ldc): the contents of C afterwards
Sgemm(call, A, B, C) == GemmLoop(call, A, B, C, 0, 0)

\* a faulty multiply: the two operand pointers are passed in the other order
MatMul_SwappedPointers(self, other, arrays) ==
    LET zeroed == MatZeros(other.rows, self.cols)
        call   == MulCall(self.rows, self.cols, other.rows)
        A      == CowAsPtr(other.vec, arrays)
        B      == CowAsPtr(self.vec, arrays)
        out    == CowAsMutPtr(zeroed.vec, arrays)
        ok     == GemmInBounds(call, other.rows * other.cols,
                               self.rows * self.cols,
                               other.rows * self.cols)
    IN  [buffer |-> IF ok
                    THEN [zeroed EXCEPT !.vec =
                             [out EXCEPT !.data = Sgemm(call, A, B, out.data)]]
                    ELSE zeroed,
         call   |-> call,
         ub     |-> ~ok]

\* self * other: [buffer, call, ub]; ub says the backend was sent outside a
\* buffer (undefined behaviour: buffer is then not meaningful)
MatMul(self, other, arrays) ==
    LET zeroed == MatZeros(other.rows, self.cols)
        call   == MulCall(self.rows, self.cols, other.rows)
        A      == CowAsPtr(self.vec, arrays)
        B      == CowAsPtr(other.vec, arrays)
        out    == CowAsMutPtr(zeroed.vec, arrays)
        ok     == GemmInBounds(call, self.rows * self.cols,
                               other.rows * other.cols,
                               other.rows * self.cols)
    IN  [buffer |-> IF ok
                    THEN [zeroed EXCEPT !.vec =
                             [out EXCEPT !.data = Sgemm(call, A, B, out.data)]]
                    ELSE zeroed,
         call   |-> call,
         ub     |-> ~ok]

-----------------------------------------------------------------------------
(* The program: four named values.  a is a Matrix<K, M> and b a            *)
(* Matrix<N, K> (the operand types of Mul); r holds the result of          *)
(* a.transpose(), b.transpose() or a * b; t holds r.transpose().           *)

Slots == {"a", "b", "r", "t"}

Operands == {"a", "b"}

SlotRows(s, d) == IF s = "a" THEN d.K ELSE d.N

SlotCols(s, d) == IF s = "a" THEN d.M ELSE d.K

SlotArray(s) == IF s = "a" THEN "extA" ELSE "extB"

\* the caller's array a replacement vector is built from
AssignArray(s) == IF s \in {"a", "b"} THEN SlotArray(s) ELSE "extC"

\* history of the instance a variable holds. A Matrix is its vector and
\* nothing else (line 11), so an assignment of a whole vector through
\* deref_mut drops the instance held and moves a new one in, exactly as the
\* assignment of a whole Matrix would: inst counts the instances the
\* variable has held after its first, origin is how the instance held now
\* was constructed, of the array or value it came from, fresh whether no
\* mutating access has been applied to it yet, touched the offsets written
\* in it. muts counts the uses of the variable through &mut.
NoHist ==
    [inst |-> 0, origin |-> "none", of |-> "none", muts |-> 0,
     fresh |-> TRUE, touched |-> {}]

Built(origin, of) ==
    [inst |-> 0, origin |-> origin, of |-> of, muts |-> 0,
     fresh |-> TRUE, touched |-> {}]

MutsDone == hist["a"].muts + hist["b"].muts + hist["r"].muts + hist["t"].muts

\* a trapped assert! unwinds the program: nothing runs after it
Halted == ev.op \in {"index", "index_mut"} /\ ev.trapped

\* the index pairs tried on m: every valid one, and one past either end
Requests(m) == (0 .. m.rows) \X (0 .. m.cols)

\* the index pairs written in the storage-mode analysis: the first and the
\* last element, the end of the first column, and one past the last row
\* (trapped by the checked accessor; inside the storage, for the unchecked
\* one, when there is a second column)
Probes(m) ==
    {<<0, 0>>, <<m.rows - 1, m.cols - 1>>, <<m.rows - 1, 0>>, <<m.rows, 0>>}

\* what an operation leaves behind: its result, or, had it run into
\* undefined behaviour, any contents at all
Outcomes(m, ub) ==
    IF ub
    THEN {[m EXCEPT !.vec.data = j] :
             j \in {ZeroBuf(m.rows * m.cols), Iota(m.rows * m.cols)}}
    ELSE {m}

\* let m = Matrix::<T, K, M>::zeros()
Zeros(s) ==
    /\ ~Halted /\ s \in Operands /\ mat[s] = NoMatrix
    /\ mat' = [mat EXCEPT ![s] = MatZeros(SlotRows(s, dims), SlotCols(s, dims))]
    /\ hist' = [hist EXCEPT ![s] = Built("zeros", "none")]
    /\ ev' = [op |-> "new"]
    /\ UNCHANGED <<dims, ext>>

\* let m: Matrix<T, K, M> = (&array).into()
FromRef(s) ==
    /\ ~Halted /\ s \in Operands /\ mat[s] = NoMatrix
    /\ mat' = [mat EXCEPT ![s] =
                 MatFromRef(SlotRows(s, dims), SlotCols(s, dims), SlotArray(s))]
    /\ hist' = [hist EXCEPT ![s] = Built("from_ref", SlotArray(s))]
    /\ ev' = [op |-> "new"]
    /\ UNCHANGED <<dims, ext>>

\* let m: Matrix<T, K, M> = array.into(), with a copy of the caller's array
FromArray(s) ==
    /\ ~Halted /\ s \in Operands /\ mat[s] = NoMatrix
    /\ mat' = [mat EXCEPT ![s] =
                 MatFromArray(SlotRows(s, dims), SlotCols(s, dims), ext[SlotArray(s)])]
    /\ hist' = [hist EXCEPT ![s] = Built("from_array", "none")]
    /\ ev' = [op |-> "new"]
    /\ UNCHANGED <<dims, ext>>

\* let m: Matrix<T, K, M> = vector.into(), for a vector that borrows the
\* caller's array (how = "ref") or owns a copy of it (how = "array")
FromCow(s, how) ==
    /\ ~Halted /\ s \in Operands /\ mat[s] = NoMatrix
    /\ how \in {"ref", "array"}
    /\ LET v == IF how = "ref" THEN CowFromRef(SlotArray(s))
                ELSE CowFromArray(ext[SlotArray(s)])
       IN  mat' = [mat EXCEPT ![s] =
                     MatFromCow(SlotRows(s, dims), SlotCols(s, dims), v)]
    /\ hist' = [hist EXCEPT ![s] =
                  IF how = "ref" THEN Built("from_ref", SlotArray(s))
                  ELSE Built("from_array", "none")]
    /\ ev' = [op |-> "new"]
    /\ UNCHANGED <<dims, ext>>

\* let x = m[[r, c]]
Index(s, n) ==
    /\ ~Halted /\ mat[s] # NoMatrix /\ n \in Requests(mat[s])
    /\ LET res == MatIndex(mat[s], ext, n)
       IN  ev' = [op |-> "index", slot |-> s, n |-> n, trapped |-> res.trapped,
                  off |-> res.off, val |-> res.val]
    /\ UNCHANGED <<dims, ext, mat, hist>>

\* m[[r, c]] = x
IndexMut(s, n, x) ==
    /\ ~Halted /\ mat[s] # NoMatrix /\ n \in Requests(mat[s])
    /\ MutsDone < MaxMut
    /\ LET res == MatIndexMut(mat[s], ext, n, x)
       IN  /\ mat' = [mat EXCEPT ![s] = res.m]
           /\ hist' = IF res.trapped THEN hist
                      ELSE [hist EXCEPT ![s].muts = @ + 1,
                                        ![s].fresh = FALSE,
                                        ![s].touched = @ \cup {res.off}]
           /\ ev' = [op |-> "index_mut", slot |-> s, n |-> n, x |-> x,
                     trapped |-> res.trapped, off |-> res.off,
                     before |-> Flat(mat[s], ext)]
    /\ UNCHANGED <<dims, ext>>

\* unsafe { *m.get_unchecked_mut([r, c]) = x }, called within its safety
\* contract: the offset is inside the storage (r itself may exceed K)
GetUncheckedMut(s, n, x) ==
    /\ ~Halted /\ mat[s] # NoMatrix /\ n \in Requests(mat[s])
    /\ n[1] + n[2] * mat[s].rows < mat[s].rows * mat[s].cols
    /\ MutsDone < MaxMut
    /\ mat' = [mat EXCEPT ![s] = MatGetUncheckedMut(mat[s], ext, n, x)]
    /\ hist' = [hist EXCEPT ![s].muts = @ + 1,
                            ![s].fresh = FALSE,
                            ![s].touched = @ \cup {n[1] + n[2] * mat[s].rows}]
    /\ ev' = [op |-> "get_unchecked_mut", slot |-> s, n |-> n, x |-> x,
              before |-> Flat(mat[s], ext)]
    /\ UNCHANGED <<dims, ext>>

\* let p = m.as_mut_ptr(): deref_mut hands out the vector as it is, and the
\* vector's as_mut_ptr promotes it
AsMutPtr(s) ==
    /\ ~Halted /\ mat[s] # NoMatrix
    /\ MutsDone < MaxMut
    /\ mat' = [mat EXCEPT ![s].vec = CowAsMutPtr(MatDerefMut(mat[s]), ext)]
    /\ hist' = [hist EXCEPT ![s].muts = @ + 1, ![s].fresh = FALSE]
    /\ ev' = [op |-> "as_mut_ptr", slot |-> s, before |-> Flat(mat[s], ext)]
    /\ UNCHANGED <<dims, ext>>

\* *m.deref_mut() = v (also written *m = v): the vector of m is dropped and
\* a newly constructed one moved in, which borrows the caller's array of m's
\* size (how = "ref") or owns a copy of it (how = "array")
AssignVec(s, how) ==
    /\ ~Halted /\ mat[s] # NoMatrix
    /\ how \in {"ref", "array"}
    /\ DOMAIN ext[AssignArray(s)] = Buf(mat[s].rows * mat[s].cols)
    /\ MutsDone < MaxMut
    /\ LET v == IF how = "ref" THEN CowFromRef(AssignArray(s))
                ELSE CowFromArray(ext[AssignArray(s)])
       IN  mat' = [mat EXCEPT ![s] = MatDerefMutAssign(mat[s], v)]
    /\ hist' = [hist EXCEPT ![s].inst = @ + 1,
                            ![s].origin = IF how = "ref" THEN "from_ref"
                                          ELSE "from_array",
                            ![s].of = IF how = "ref" THEN AssignArray(s) ELSE "none",
                            ![s].muts = @ + 1,
                            ![s].fresh = TRUE,
                            ![s].touched = {}]
    /\ ev' = [op |-> "assign", slot |-> s, how |-> how]
    /\ UNCHANGED <<dims, ext>>

\* let to = from.transpose()
Transpose(from, to) ==
    /\ ~Halted
    /\ <<from, to>> \in {<<"a", "r">>, <<"b", "r">>, <<"r", "t">>}
    /\ mat[from] # NoMatrix /\ mat[to] = NoMatrix
    /\ LET res == MatTranspose(mat[from], ext)
           ub  == ~TraceInBounds(mat[from], res.trace)
       IN  /\ \E out \in Outcomes(res.buffer, ub) :
                 mat' = [mat EXCEPT ![to] = out]
           /\ ev' = [op |-> "transpose", from |-> from, to |-> to,
                     trace |-> res.trace, ub |-> ub]
    /\ hist' = [hist EXCEPT ![to] = Built("transpose", from)]
    /\ UNCHANGED <<dims, ext>>

\* let r = a * b
Mul ==
    /\ ~Halted
    /\ mat["a"] # NoMatrix /\ mat["b"] # NoMatrix /\ mat["r"] = NoMatrix
    /\ LET res == MatMul(mat["a"], mat["b"], ext)
       IN  /\ \E out \in Outcomes(res.buffer, res.ub) :
                 mat' = [mat EXCEPT !["r"] = out]
           /\ ev' = [op |-> "mul", call |-> res.call, ub |-> res.ub]
    /\ hist' = [hist EXCEPT !["r"] = Built("mul", "ab")]
    /\ UNCHANGED <<dims, ext>>

-----------------------------------------------------------------------------
(* Specifications *)

Shape(K, M, N) == [K |-> K, M |-> M, N |-> N]

\* the const generics of tests::mul and tests::mul2
TestShapes == {Shape(3, 2, 2), Shape(3, 4, 2)}

Empty ==
    /\ mat = [s \in Slots |-> NoMatrix]
    /\ hist = [s \in Slots |-> NoHist]
    /\ ev = [op |-> "init"]

\* the caller's arrays of the storage-mode analysis
SourceArrays(d) ==
    [extA |-> Iota(d.K * d.M),
     extB |-> Tens(d.N * d.K),
     extC |-> Mul2Buf(d.N * d.M)]

SmallShapes ==
    {Shape(K, M, N) : K \in 1 .. MaxDim, M \in 1 .. MaxDim, N \in 1 .. MaxDim}

\* storage-mode analysis: small shapes, construction, mutation, transpose
\* and multiply in any order
Init ==
    /\ dims \in SmallShapes
    /\ ext = SourceArrays(dims)
    /\ Empty

\* the values the program writes to: the left operand and the result
Written == {"a", "r"}

Next ==
    \/ \E s \in Operands : Zeros(s)
    \/ \E s \in Operands : FromRef(s)
    \/ \E s \in Operands : FromArray(s)
    \/ \E s \in Operands, how \in {"ref", "array"} : FromCow(s, how)
    \/ \E s \in Written : \E n \in Probes(mat[s]), x \in WriteVals : IndexMut(s, n, x)
    \/ \E s \in Written : \E n \in Probes(mat[s]), x \in WriteVals : GetUncheckedMut(s, n, x)
    \/ \E s \in Written : AsMutPtr(s)
    \/ \E s \in Written, how \in {"ref", "array"} : AssignVec(s, how)
    \/ \E from \in Operands : Transpose(from, "r")
    \/ Mul

Spec == Init /\ [][Next]_vars

\* checked-indexing analysis: one matrix, read and written at every index
\* pair up to one past either end
InitIndex ==
    /\ dims \in {d \in SmallShapes : d.N = 1}
    /\ ext = SourceArrays(dims)
    /\ Empty

NextIndex ==
    \/ Zeros("a")
    \/ FromRef("a")
    \/ FromArray("a")
    \/ \E n \in Requests(mat["a"]) : Index("a", n)
    \/ \E n \in Requests(mat["a"]), x \in WriteVals : IndexMut("a", n, x)

SpecIndex == InitIndex /\ [][NextIndex]_vars

\* transpose/multiply analysis: larger shapes and the tests' shapes, several
\* input arrays, no mutation
InitAlg ==
    /\ dims \in {Shape(K, M, N) : K \in 1 .. MaxShape, M \in 1 .. MaxShape,
                                  N \in 1 .. MaxShape} \cup TestShapes
    /\ ext \in {[extA |-> A, extB |-> B, extC |-> Mul2Buf(dims.N * dims.M)] :
                   A \in {Iota(dims.K * dims.M), Sparse(dims.K * dims.M)},
                   B \in {Tens(dims.N * dims.K), Mul2Buf(dims.N * dims.K)}}
    /\ Empty

NextAlg ==
    \/ \E s \in Operands : FromRef(s)
    \/ \E s \in Operands : FromArray(s)
    \/ \E from \in Slots, to \in Slots : Transpose(from, to)
    \/ Mul

SpecAlg == InitAlg /\ [][NextAlg]_vars

-----------------------------------------------------------------------------
(* Properties *)

\* f[0] + ... + f[k-1]
RECURSIVE SumFn(_, _)
SumFn(f, k) == IF k = 0 THEN 0 ELSE f[k - 1] + SumFn(f, k - 1)

\* the value m[[r, c]] reads
At(m, r, c) == MatIndex(m, ext, <<r, c>>).val

\* C1: checked 2D indexing, read form and write form, traps if and only if
\* r >= K or c >= M; when it does not trap it accesses exactly storage
\* offset r + c*K: the read returns the element stored there, the write
\* changes that element and no other; a trapped write changes nothing.
C1_CheckedIndexTrapsIffOutOfRange ==
    ev.op \in {"index", "index_mut"} =>
        LET m   == mat[ev.slot]
            r   == ev.n[1]
            c   == ev.n[2]
            now == Flat(m, ext)
        IN  /\ ev.trapped <=> (r >= m.rows \/ c >= m.cols)
            /\ ~ev.trapped => ev.off = r + c * m.rows
            /\ (~ev.trapped /\ ev.op = "index") => ev.val = now[r + c * m.rows]
            /\ (~ev.trapped /\ ev.op = "index_mut") =>
                   now = [ev.before EXCEPT ![r + c * m.rows] = ev.x]
            /\ (ev.trapped /\ ev.op = "index_mut") => now = ev.before

\* C1 witness: a write m[[1, 1]] = x on a borrowed Matrix<2, 2> went through
\* (offset 3), so the matrix now differs from the caller's array there
C1_Witness ==
    /\ ev.op = "index_mut" /\ ~ev.trapped /\ ev.n = <<1, 1>>
    /\ mat["a"].rows = 2 /\ mat["a"].cols = 2
    /\ hist["a"].origin = "from_ref"
    /\ Flat(mat["a"], ext)[3] # ext["extA"][3]

\* C2: with a of K*M values behind the left operand and b of N*K values
\* behind the right one, the flat storage c of left * right satisfies
\* c[i*N + j] = sum over k < K of a[i*K + k] * b[k*N + j] for all i < M and
\* j < N (the backend being a row-major no-transpose GEMM); in particular
\* 1..6 (Matrix<3,2>) times 10,11,20,21,30,31 (Matrix<2,3>) is
\* 140,146,320,335 and 1..12 (Matrix<3,4>) times 3,6,8,10,9,17
\* (Matrix<2,3>) is 46,77,106,176,166,275,226,374.
C2_MulFlatProduct ==
    ev.op = "mul" =>
        LET K == dims.K
            M == dims.M
            N == dims.N
            a == Flat(mat["a"], ext)
            b == Flat(mat["b"], ext)
            c == Flat(mat["r"], ext)
        IN  /\ DOMAIN c = Buf(N * M)
            /\ \A i \in Buf(M), j \in Buf(N) :
                   c[i * N + j] =
                       SumFn([k \in Buf(K) |-> a[i * K + k] * b[k * N + j]], K)
            /\ (/\ dims = Shape(3, 2, 2)
                /\ a = FromSeq(<<1, 2, 3, 4, 5, 6>>)
                /\ b = FromSeq(<<10, 11, 20, 21, 30, 31>>))
               => c = FromSeq(<<140, 146, 320, 335>>)
            /\ (/\ dims = Shape(3, 4, 2)
                /\ a = FromSeq(<<1, 2, 3, 4, 5, 6, 7, 8, 9, 10, 11, 12>>)
                /\ b = FromSeq(<<3, 6, 8, 10, 9, 17>>))
               => c = FromSeq(<<46, 77, 106, 176, 166, 275, 226, 374>>)

\* C2 witness: tests::mul2 has run (and tests::mul's inputs exist as well in
\* another behaviour): the product of the two literal operands is in r
C2_Witness ==
    /\ ev.op = "mul"
    /\ dims = Shape(3, 4, 2)
    /\ Flat(mat["a"], ext) = FromSeq(<<1, 2, 3, 4, 5, 6, 7, 8, 9, 10, 11, 12>>)
    /\ Flat(mat["b"], ext) = FromSeq(<<3, 6, 8, 10, 9, 17>>)
    /\ Flat(mat["r"], ext)[7] = 374

\* C3: transpose of a K x M matrix A has shape M x K and, under checked
\* indexing, transpose(A)[[c, r]] = A[[r, c]] for every r < K and c < M; no
\* cell of the result is zero unless the input cell it comes from is zero.
C3_TransposeElements ==
    ev.op = "transpose" =>
        LET A == mat[ev.from]
            T == mat[ev.to]
        IN  /\ T.rows = A.cols /\ T.cols = A.rows
            /\ DOMAIN Flat(T, ext) = Buf(A.cols * A.rows)
            /\ \A r \in Buf(A.rows), c \in Buf(A.cols) :
                   /\ ~MatIndex(T, ext, <<c, r>>).trapped
                   /\ ~MatIndex(A, ext, <<r, c>>).trapped
                   /\ At(T, c, r) = At(A, r, c)
            /\ \A off \in Buf(A.cols * A.rows) :
                   Flat(T, ext)[off] = 0 =>
                       \E r \in Buf(A.rows), c \in Buf(A.cols) :
                           off = c + r * T.rows /\ At(A, r, c) = 0

\* C3 witness: a borrowed 2 x 3 matrix with a zero in it was transposed
C3_Witness ==
    /\ ev.op = "transpose" /\ ev.from = "a"
    /\ mat["a"].rows = 2 /\ mat["a"].cols = 3
    /\ MatIsBorrowed(mat["a"])
    /\ At(mat["a"], 1, 0) = 0
    /\ At(mat["r"], 2, 1) = At(mat["a"], 1, 2)

\* C4: for a matrix built by borrowing the caller's array, no sequence of
\* mutating accesses (index_mut, get_unchecked_mut, as_mut_ptr) changes an
\* element of that array; after the first of them is_owned() is true and
\* is_borrowed() false; the matrix holds the array's contents except at the
\* offsets written, and each write changes the written element only.
C4_BorrowedSourceNeverWritten ==
    /\ ext = SourceArrays(dims)
    /\ \A s \in Slots :
           hist[s].origin = "from_ref" =>
               LET m      == mat[s]
                   source == SourceArrays(dims)[hist[s].of]
                   now    == Flat(m, ext)
               IN  /\ ~hist[s].fresh => (MatIsOwned(m) /\ ~MatIsBorrowed(m))
                   /\ DOMAIN now = Buf(m.rows * m.cols)
                   /\ \A off \in Buf(m.rows * m.cols) :
                          IF off \in hist[s].touched
                          THEN now[off] \in WriteVals
                          ELSE now[off] = source[off]
    /\ (ev.op \in {"index_mut", "get_unchecked_mut"}
           /\ hist[ev.slot].origin = "from_ref") =>
           LET m == mat[ev.slot]
           IN  Flat(m, ext) =
                   IF ev.op = "index_mut" /\ ev.trapped THEN ev.before
                   ELSE [ev.before EXCEPT ![ev.n[1] + ev.n[2] * m.rows] = ev.x]
    /\ (ev.op = "as_mut_ptr" /\ hist[ev.slot].origin = "from_ref") =>
           Flat(mat[ev.slot], ext) = ev.before

\* C4 witness: a matrix borrowed from the caller's array was mutated twice,
\* the last time by an unchecked write, and now differs from the array
C4_Witness ==
    /\ hist["a"].origin = "from_ref" /\ hist["a"].muts = 2
    /\ ev.op = "get_unchecked_mut" /\ ev.slot = "a"
    /\ MatIsOwned(mat["a"])
    /\ Flat(mat["a"], ext) # ext["extA"]

\* the storage mode of every instance agrees with its construction path and
\* with whether a mutating access has been applied to it
ModeFollowsHistory ==
    \A s \in Slots :
        mat[s] # NoMatrix =>
            /\ MatIsBorrowed(mat[s]) <=>
                   (hist[s].origin = "from_ref" /\ hist[s].fresh)
            /\ MatIsOwned(mat[s]) <=> ~MatIsBorrowed(mat[s])
            /\ hist[s].origin \in {"zeros", "from_array", "transpose", "mul"}
                   => MatIsOwned(mat[s])

\* the variable s holds the same instance before and after the step
SameInstance(s) ==
    /\ mat[s] # NoMatrix
    /\ hist'[s].inst = hist[s].inst

C6_TransposeInvolution ==
    (hist["t"].origin = "transpose" /\ hist["r"].origin = "transpose") =>
        LET A  == mat[hist["r"].of]
            TT == mat["t"]
        IN  /\ TT.rows = A.rows /\ TT.cols = A.cols
            /\ Flat(TT, ext) = Flat(A, ext)
            /\ \A r \in Buf(A.rows), c \in Buf(A.cols) :
                   At(TT, r, c) = At(A, r, c)

\* C6 witness: a borrowed 3 x 2 matrix was transposed twice
C6_Witness ==
    /\ hist["t"].origin = "transpose" /\ hist["r"].origin = "transpose"
    /\ hist["r"].of = "a"
    /\ mat["a"].rows = 3 /\ mat["a"].cols = 2
    /\ MatIsBorrowed(mat["a"])
    /\ mat["r"].rows = 2 /\ mat["t"].rows = 3
    /\ At(mat["t"], 2, 1) = 6

\* C7: transpose and multiply leave their operands as they were (elements
\* and storage mode; the caller's arrays too); their result is Owned and
\* refers to no storage but its own; a later write to one value changes no
\* element of any other value.
C7_OperandsUnchanged ==
    [][/\ (hist["r"].origin = "none" /\ hist'["r"].origin \in {"transpose", "mul"}) =>
              /\ mat'["a"] = mat["a"] /\ mat'["b"] = mat["b"]
              /\ ext' = ext
              /\ MatIsOwned(mat'["r"]) /\ mat'["r"].vec.src = "none"
       /\ \A s \in Slots :
              hist'[s].muts > hist[s].muts =>
                  /\ ext' = ext
                  /\ \A o \in Slots \ {s} :
                         /\ mat'[o] = mat[o]
                         /\ Flat(mat'[o], ext') = Flat(mat[o], ext)]_vars

\* C7 witness: the product of two borrowed operands was written to
\* afterwards, and both operands are still borrowed
C7_Witness ==
    /\ hist["r"].origin = "mul" /\ hist["r"].muts > 0
    /\ ev.op = "index_mut" /\ ev.slot = "r" /\ ~ev.trapped
    /\ MatIsBorrowed(mat["a"]) /\ MatIsBorrowed(mat["b"])

\* C8: the loops of transpose visit every pair (x, y), x < K, y < M, exactly
\* once; every read offset x + y*K is below K*M, every write offset y + x*M
\* is below M*K, and every output offset 0..M*K-1 is written exactly once.
C8_TransposeLoopCoverage ==
    ev.op = "transpose" =>
        LET K  == mat[ev.from].rows
            M  == mat[ev.from].cols
            tr == ev.trace
        IN  /\ ~ev.ub
            /\ \A x \in Buf(K), y \in Buf(M) :
                   Cardinality({i \in 1 .. Len(tr) : tr[i].x = x /\ tr[i].y = y}) = 1
            /\ \A i \in 1 .. Len(tr) :
                   /\ tr[i].x \in Buf(K) /\ tr[i].y \in Buf(M)
                   /\ tr[i].rd = tr[i].x + tr[i].y * K /\ tr[i].rd < K * M
                   /\ tr[i].wr = tr[i].y + tr[i].x * M /\ tr[i].wr < M * K
            /\ \A off \in Buf(M * K) :
                   Cardinality({i \in 1 .. Len(tr) : tr[i].wr = off}) = 1

\* C8 witness: a 3 x 4 matrix was transposed in twelve loop iterations
C8_Witness ==
    /\ ev.op = "transpose" /\ ev.from = "a"
    /\ mat["a"].rows = 3 /\ mat["a"].cols = 4
    /\ Len(ev.trace) = 12
    /\ ev.trace[12].rd = 11 /\ ev.trace[12].wr = 11
    /\ ev.trace[2].rd = 3 /\ ev.trace[2].wr = 1

\* C9: the one backend call of multiply passes dimensions (M, N, K) and
\* leading dimensions (K, N, N), so that every offset a row-major
\* no-transpose GEMM touches is inside its buffer: i*K + k < K*M,
\* k*N + j < N*K, i*N + j < N*M for i < M, j < N, k < K; and the output
\* offsets are all of 0..N*M-1, each exactly once.
C9_BackendCallInBounds ==
    ev.op = "mul" =>
        LET K    == dims.K
            M    == dims.M
            N    == dims.N
            call == ev.call
        IN  /\ call.m = M /\ call.n = N /\ call.k = K
            /\ call.lda = K /\ call.ldb = N /\ call.ldc = N
            /\ ~ev.ub
            /\ \A i \in Buf(call.m), j \in Buf(call.n), k \in Buf(call.k) :
                   /\ i * call.lda + k < K * M
                   /\ k * call.ldb + j < N * K
                   /\ i * call.ldc + j < N * M
            /\ \A off \in Buf(N * M) :
                   Cardinality({p \in Buf(call.m) \X Buf(call.n) :
                                   p[1] * call.ldc + p[2] = off}) = 1

\* C9 witness: a multiply with three different dimensions has run
C9_Witness ==
    /\ ev.op = "mul"
    /\ dims = Shape(3, 2, 1)
    /\ ev.call.m = 2 /\ ev.call.n = 1 /\ ev.call.k = 3

\* C10: read through checked indexing, R = left * right (left K rows x M
\* columns, right N rows x K columns) has N rows and M columns and
\* R[[j, i]] = sum over k < K of right[[j, k]] * left[[k, i]] for all j < N,
\* i < M: the product of the right operand by the left operand.
C10_MulIsRightTimesLeft ==
    ev.op = "mul" =>
        LET left  == mat["a"]
            right == mat["b"]
            R     == mat["r"]
            K     == left.rows
        IN  /\ right.cols = K
            /\ R.rows = right.rows /\ R.cols = left.cols
            /\ \A j \in Buf(right.rows), i \in Buf(left.cols) :
                   /\ ~MatIndex(R, ext, <<j, i>>).trapped
                   /\ At(R, j, i) =
                          SumFn([k \in Buf(K) |-> At(right, j, k) * At(left, k, i)], K)

\* C10 witness: a 2 x 3 left operand was multiplied with a 1 x 2 right
\* operand, giving a 1 x 3 result with a non-zero last element
C10_Witness ==
    /\ ev.op = "mul"
    /\ mat["a"].rows = 2 /\ mat["a"].cols = 3
    /\ mat["b"].rows = 1 /\ mat["b"].cols = 2
    /\ mat["r"].rows = 1 /\ mat["r"].cols = 3
    /\ At(mat["r"], 0, 2) > 0

=============================================================================
